---- MODULE Spec2Model ----
(***************************************************************************)
(* Model of cf_dyndns.py: the Cloudflare dynamic DNS updater.              *)
(* The process reads its configuration, optionally discovers the record   *)
(* identifier, and then loops: echo the public IP, read the DNS record,    *)
(* compare, update when they differ, sleep.  Every HTTP request is a       *)
(* state of its own (the request is in flight) so that an interrupt can    *)
(* arrive between any two calls.                                           *)
(***************************************************************************)
EXTENDS Integers, Sequences, FiniteSets, TLC

VARIABLES
    CF_API_TOKEN,   \* os.getenv("CLOUDFLARE_API_TOKEN")
    ZONE_ID,        \* os.getenv("ZONE_ID")
    DNS_RECORD_ID,  \* os.getenv("DNS_RECORD_ID"), rebound by main
    DOMAIN_NAME,    \* os.getenv("DOMAIN_NAME")
    RECORD_TYPE,    \* os.getenv("RECORD_TYPE", "A")
    TTL,            \* int(os.getenv("TTL", "3600"))
    PROXIED,        \* os.getenv("PROXIED", "false").lower() == "true"
    CHECK_INTERVAL, \* int(os.getenv("CHECK_INTERVAL", "300"))
    pc,             \* position of the main thread
    current_ip,     \* local of check_and_update
    dns_record,     \* local of check_and_update
    calls,          \* requests issued in the current pass, in order
    issued,         \* kinds of request issued since the process started
    discoveryResp,  \* response received by get_dns_record_id
    echoResp,       \* response received by get_current_ip in this pass
    readResp,       \* response received by get_cloudflare_dns_record in this pass
    updateResp,     \* response received by update_cloudflare_dns_record in this pass
    updated,        \* value returned by update_cloudflare_dns_record in this pass
    exitReason,     \* why main returned
    interruptedAt,  \* position of the main thread when KeyboardInterrupt was raised
    waits,          \* time.sleep calls that returned since the last pass started
    prevIp,         \* current_ip of the previous pass (None: no such pass, or its echo failed)
    stalled,        \* the request in flight will never be answered
    publicIp,       \* the public address of the host (None: not tracked)
    remote,         \* the DNS record at the provider (NullRecord: not tracked)
    stable          \* the address has stopped changing and the network has stopped failing

vars == <<CF_API_TOKEN, ZONE_ID, DNS_RECORD_ID, DOMAIN_NAME, RECORD_TYPE, TTL,
          PROXIED, CHECK_INTERVAL, pc, current_ip, dns_record, calls, issued,
          discoveryResp, echoResp, readResp, updateResp, updated, exitReason,
          interruptedAt, waits, prevIp, stalled, publicIp, remote, stable>>

config == <<CF_API_TOKEN, ZONE_ID, DOMAIN_NAME, RECORD_TYPE, TTL, PROXIED,
            CHECK_INTERVAL>>

passLocals == <<current_ip, dns_record, calls, echoResp, readResp, updateResp,
                updated>>

hist == <<waits, prevIp>>

env == <<publicIp, remote, stable>>

----------------------------------------------------------------------------
(* Bounds *)

MaxIPs == 2         \* number of distinct addresses the echo service and the record can carry
MaxRecords == 2     \* longest result list of a discovery response

----------------------------------------------------------------------------
(* Values *)

None == "<None>"    \* Python None, JSON null, an unset environment variable

IP(i) == "1.2.3." \o ToString(i)

IPs == {IP(i) : i \in 1..MaxIPs}

RecordIds == {"abc123", "def456"}

Missing == "<missing>"   \* a dictionary without the key

\* Python truthiness of a string-or-None value: None and "" are falsy.
Falsy(v) == v \in {None, ""}

TTLs == {120, 3600}

RecordTypes == {"A", "AAAA"}

\* The fields of a DNS record as the provider returns them in "result".
RemoteRecords == [type : {"A"}, name : {"x.example.com"}, content : IPs,
                  ttl : TTLs, proxied : BOOLEAN]

NullRecord == [type |-> None, name |-> None, content |-> None, ttl |-> 0,
               proxied |-> FALSE]

NoResp == [status |-> "none"]

----------------------------------------------------------------------------
(* Responses of the network.  status "exc" is a transport exception raised  *)
(* by requests, "200" and "non200" are HTTP statuses.                       *)

EchoResponses ==
    {[status |-> "exc", text |-> ""], [status |-> "non200", text |-> ""]}
    \cup {[status |-> "200", text |-> t] : t \in IPs}

\* Shapes of a list-records body:
\*   malformed  response.json() raises
\*   list       valid JSON that is not an object (no .get)
\*   dict       {"success": s, "result": [ {id: ...}, ... ]}
\* An element's id is a record identifier, "", None (JSON null) or Missing
\* (the element has no "id" key).
DiscoveryIds == RecordIds \cup {"", None, Missing}

RECURSIVE SeqsUpTo(_, _)
SeqsUpTo(S, n) ==
    IF n = 0 THEN {<<>>}
    ELSE LET shorter == SeqsUpTo(S, n - 1)
         IN  shorter \cup {Append(s, x) : s \in {t \in shorter : Len(t) = n - 1}, x \in S}

\* The result lists: up to MaxRecords elements.  Only the first element is
\* ever looked at, so only the first one comes in all its forms.
DiscoveryResults ==
    {<<>>} \cup {<<first>> \o rest : first \in DiscoveryIds,
                                     rest \in SeqsUpTo(RecordIds, MaxRecords - 1)}

DiscoveryBodies ==
    {[shape |-> "malformed", success |-> FALSE, result |-> <<>>],
     [shape |-> "list", success |-> FALSE, result |-> <<>>]}
    \cup {[shape |-> "dict", success |-> s, result |-> r] :
            s \in BOOLEAN, r \in DiscoveryResults}

DiscoveryResponses ==
    {[status |-> "exc", body |-> [shape |-> "malformed", success |-> FALSE, result |-> <<>>]],
     [status |-> "non200", body |-> [shape |-> "dict", success |-> FALSE, result |-> <<>>]]}
    \cup {[status |-> "200", body |-> b] : b \in DiscoveryBodies}

\* Shapes of a read-record body:
\*   malformed   response.json() raises
\*   null        JSON null
\*   empty       {}
\*   list        a non-empty JSON array
\*   no_result   {"success": false, "errors": [...]}: no "result" key
\*   result_null {"success": false, "result": null}
\*   no_content  {"success": true, "result": {...}} without a "content" key
\*   record      {"success": true, "result": {type, name, content, ttl, proxied}}
ReadShapes == {"malformed", "null", "empty", "list", "no_result", "result_null",
               "no_content"}

NoneBody == [shape |-> "null", result |-> NullRecord]

ReadBodies ==
    {[shape |-> s, result |-> NullRecord] : s \in ReadShapes}
    \cup {[shape |-> "record", result |-> r] : r \in RemoteRecords}

ReadResponses ==
    {[status |-> "exc", body |-> NoneBody]}
    \cup {[status |-> "non200", body |-> b] : b \in {NoneBody, [shape |-> "no_result", result |-> NullRecord]}}
    \cup {[status |-> "200", body |-> b] : b \in ReadBodies}

\* Shapes of an update body: malformed, list (no .get), dict {"success": s}.
UpdateResponses ==
    {[status |-> "exc", shape |-> "malformed", success |-> FALSE],
     [status |-> "non200", shape |-> "dict", success |-> FALSE],
     [status |-> "200", shape |-> "malformed", success |-> FALSE],
     [status |-> "200", shape |-> "list", success |-> FALSE],
     [status |-> "200", shape |-> "dict", success |-> FALSE],
     [status |-> "200", shape |-> "dict", success |-> TRUE]}

----------------------------------------------------------------------------
(* The functions of the script, as functions of the response they receive. *)

\* get_current_ip without the status check.
get_current_ip_any_status(resp) ==
    [raised |-> resp.status = "exc", value |-> resp.text]

\* get_current_ip: the body text on HTTP 200; any other status raises inside
\* the try, the handler logs and re-raises, as it does a transport exception.
get_current_ip(resp) ==
    IF resp.status = "200"
    THEN [raised |-> FALSE, value |-> resp.text]
    ELSE [raised |-> TRUE, value |-> None]

\* get_dns_record_id returning the last match instead of the first.
get_dns_record_id_last(resp) ==
    IF resp.status = "200" /\ resp.body.shape = "dict"
       /\ resp.body.success /\ Len(resp.body.result) > 0
       /\ resp.body.result[1] # Missing
    THEN resp.body.result[Len(resp.body.result)]
    ELSE None

\* get_dns_record_id without the test of the success flag.
get_dns_record_id_no_success(resp) ==
    IF resp.status = "200" /\ resp.body.shape = "dict"
       /\ Len(resp.body.result) > 0 /\ resp.body.result[1] # Missing
    THEN resp.body.result[1]
    ELSE None

\* get_dns_record_id: the id of the first element of "result" when the status
\* is 200, "success" is truthy and "result" is a non-empty list; None in every
\* other case, also when json(), .get or ["id"] raises.
get_dns_record_id(resp) ==
    IF resp.status = "200"
    THEN IF resp.body.shape = "dict"
         THEN IF resp.body.success /\ Len(resp.body.result) > 0
              THEN IF resp.body.result[1] = Missing
                   THEN None
                   ELSE resp.body.result[1]
              ELSE None
         ELSE None
    ELSE None

\* get_cloudflare_dns_record without the status check.
get_cloudflare_dns_record_any_status(resp) ==
    IF resp.status = "exc" \/ resp.body.shape = "malformed" THEN NoneBody ELSE resp.body

\* get_cloudflare_dns_record: the parsed body on HTTP 200; None on any other
\* status, on a transport exception and when json() raises.
get_cloudflare_dns_record(resp) ==
    IF resp.status = "200"
    THEN IF resp.body.shape = "malformed" THEN NoneBody ELSE resp.body
    ELSE NoneBody

\* "if not dns_record": None and {} are falsy.
RecordFalsy(body) == body.shape \in {"null", "empty"}

\* dns_record.get("result", {}).get("content"): raises AttributeError when
\* dns_record is not an object or "result" is null; None when "result" or
\* "content" is absent.
ExtractContent(body) ==
    IF body.shape \in {"list", "result_null"}
    THEN [raised |-> TRUE, value |-> None]
    ELSE IF body.shape \in {"no_result", "no_content"}
         THEN [raised |-> FALSE, value |-> None]
         ELSE [raised |-> FALSE, value |-> body.result.content]

\* The comparison replaced by "never update".
IpChangedNever(ip, cf_ip) == FALSE

\* The comparison replaced by an unconditional update.
IpChangedAlways(ip, cf_ip) == TRUE

\* "if current_ip != cf_ip"
IpChanged(ip, cf_ip) == ip # cf_ip

\* The PUT body with the default ttl instead of the configured one.
UpdateDataDefaultTtl(ip) ==
    [type |-> RECORD_TYPE, name |-> DOMAIN_NAME, content |-> ip, ttl |-> 3600,
     proxied |-> PROXIED]

\* The JSON body of the PUT.
UpdateData(ip) ==
    [type |-> RECORD_TYPE, name |-> DOMAIN_NAME, content |-> ip, ttl |-> TTL,
     proxied |-> PROXIED]

\* update_cloudflare_dns_record without the test of the success flag.
update_cloudflare_dns_record_any_200(resp) ==
    resp.status = "200" /\ resp.shape # "malformed"

\* update_cloudflare_dns_record: True exactly on HTTP 200 with a truthy
\* "success"; False otherwise, also when json() or .get raises.
update_cloudflare_dns_record(resp) ==
    resp.status = "200" /\ resp.shape = "dict" /\ resp.success

\* A handler that catches nothing.
PassCatchesNothing(exc) == FALSE

\* A bare "except:", which also catches KeyboardInterrupt.
PassCatchesAll(exc) == TRUE

\* "except Exception" of check_and_update: catches Exception and its
\* subclasses, not KeyboardInterrupt.
PassCatches(exc) == exc = "Exception"

\* The handlers around the loop in main.
MainExit(exc) == IF exc = "KeyboardInterrupt" THEN "interrupted" ELSE "unexpected"

\* main checking the token only.
MissingVarsTokenOnly == Falsy(CF_API_TOKEN)

\* The environment variables main requires.
MissingVars == Falsy(CF_API_TOKEN) \/ Falsy(ZONE_ID)

\* main running the discovery whatever DNS_RECORD_ID is.
NeedsDiscoveryAlways == TRUE

\* "if not DNS_RECORD_ID" / "if not DOMAIN_NAME"
NeedsDiscovery == Falsy(DNS_RECORD_ID)

\* main without the check of DOMAIN_NAME.
CannotDiscoverNever == FALSE

CannotDiscover == Falsy(DOMAIN_NAME)

Call(op, data) == [op |-> op, target |-> DNS_RECORD_ID, data |-> data]

StartupPcs == {"check_env", "record_id", "discovery"}

PassPcs == {"echo", "read", "update"}

LoopPcs == {"loop", "sleep"} \cup PassPcs

\* Positions at which a request is in flight.
RequestPcs == PassPcs \cup {"discovery"}

\* requests.get and requests.put are called without a timeout argument:
\* requests then waits for the response without limit.
RequestTimeout == None

----------------------------------------------------------------------------
(* Initial state: the module has been imported, the environment is read.   *)

\* The state of the process after the import, for a given environment.
InitProcess ==
    /\ pc = "check_env"
    /\ current_ip = None
    /\ dns_record = NoneBody
    /\ calls = <<>>
    /\ issued = {}
    /\ discoveryResp = NoResp
    /\ echoResp = NoResp
    /\ readResp = NoResp
    /\ updateResp = NoResp
    /\ updated = FALSE
    /\ exitReason = "running"
    /\ interruptedAt = "nowhere"
    /\ waits = 0
    /\ prevIp = None
    /\ stalled = FALSE

Init ==
    /\ CF_API_TOKEN \in {None, "token"}
    /\ ZONE_ID \in {None, "zone"}
    /\ DNS_RECORD_ID \in {None, "", "abc123"}
    /\ DOMAIN_NAME \in {None, "x.example.com"}
    /\ RECORD_TYPE \in RecordTypes
    /\ TTL \in TTLs
    /\ PROXIED \in BOOLEAN
    /\ CHECK_INTERVAL \in {-1, 300}
    /\ InitProcess
    /\ publicIp = None
    /\ remote = NullRecord
    /\ stable = FALSE

----------------------------------------------------------------------------
(* main, before the loop *)

Return(reason) ==
    /\ pc' = "done"
    /\ exitReason' = reason

\* main: the check of the required environment variables.
CheckEnv ==
    /\ pc = "check_env"
    /\ IF MissingVars
       THEN Return("missing_vars")
       ELSE pc' = "record_id" /\ UNCHANGED exitReason
    /\ UNCHANGED <<config, DNS_RECORD_ID, passLocals, issued, discoveryResp,
                   interruptedAt, hist, stalled, env>>

\* main: use the configured identifier, or give up without a domain name, or
\* send the list-records request of get_dns_record_id.
ResolveRecordId ==
    /\ pc = "record_id"
    /\ IF ~NeedsDiscovery
       THEN pc' = "loop" /\ UNCHANGED <<exitReason, issued>>
       ELSE IF CannotDiscover
            THEN Return("no_record_id_no_domain") /\ UNCHANGED issued
            ELSE /\ pc' = "discovery"
                 /\ issued' = issued \cup {"discovery"}
                 /\ UNCHANGED exitReason
    /\ UNCHANGED <<config, DNS_RECORD_ID, passLocals, discoveryResp,
                   interruptedAt, hist, stalled, env>>

\* get_dns_record_id receives the response resp; main rebinds DNS_RECORD_ID
\* and returns when it is falsy.
DiscoveryReceive(resp) ==
    /\ pc = "discovery"
    /\ ~stalled
    /\ discoveryResp' = resp
    /\ DNS_RECORD_ID' = get_dns_record_id(resp)
    /\ IF Falsy(get_dns_record_id(resp))
       THEN Return("discovery_failed")
       ELSE pc' = "loop" /\ UNCHANGED exitReason
    /\ UNCHANGED <<config, passLocals, issued, interruptedAt, hist, stalled>>

DiscoveryResponse ==
    /\ \E resp \in DiscoveryResponses : DiscoveryReceive(resp)
    /\ UNCHANGED env

----------------------------------------------------------------------------
(* The loop: check_and_update, then time.sleep *)

\* An exception of class exc raised inside check_and_update, outside the
\* try blocks of the called functions.
RaiseInPass(exc) ==
    IF PassCatches(exc)
    THEN pc' = "sleep" /\ UNCHANGED exitReason
    ELSE Return(MainExit(exc))

\* main calls check_and_update, which calls get_current_ip: the echo request
\* is sent.  The locals of the previous call are gone.
StartPass ==
    /\ pc = "loop"
    /\ pc' = "echo"
    /\ current_ip' = None
    /\ dns_record' = NoneBody
    /\ calls' = <<Call("echo", NullRecord)>>
    /\ issued' = issued \cup {"echo"}
    /\ echoResp' = NoResp
    /\ readResp' = NoResp
    /\ updateResp' = NoResp
    /\ updated' = FALSE
    /\ waits' = 0
    /\ prevIp' = current_ip
    /\ UNCHANGED <<config, DNS_RECORD_ID, discoveryResp, exitReason,
                   interruptedAt, stalled, env>>

\* get_current_ip with a cache: the read is skipped when the address is
\* the one the previous pass resolved.
EchoReceiveCached(resp) ==
    /\ pc = "echo"
    /\ ~stalled
    /\ echoResp' = resp
    /\ IF get_current_ip(resp).raised
       THEN /\ RaiseInPass("Exception")
            /\ UNCHANGED <<current_ip, calls, issued>>
       ELSE /\ current_ip' = get_current_ip(resp).value
            /\ IF get_current_ip(resp).value = prevIp
               THEN pc' = "sleep" /\ UNCHANGED <<calls, issued>>
               ELSE /\ calls' = Append(calls, Call("read", NullRecord))
                    /\ issued' = issued \cup {"read"}
                    /\ pc' = "read"
            /\ UNCHANGED exitReason
    /\ UNCHANGED <<config, DNS_RECORD_ID, dns_record, discoveryResp, readResp,
                   updateResp, updated, interruptedAt, hist, stalled>>

\* get_current_ip receives the response resp; on success check_and_update
\* calls get_cloudflare_dns_record, which sends the read request.
EchoReceive(resp) ==
    /\ pc = "echo"
    /\ ~stalled
    /\ echoResp' = resp
    /\ IF get_current_ip(resp).raised
       THEN /\ RaiseInPass("Exception")
            /\ UNCHANGED <<current_ip, calls, issued>>
       ELSE /\ current_ip' = get_current_ip(resp).value
            /\ calls' = Append(calls, Call("read", NullRecord))
            /\ issued' = issued \cup {"read"}
            /\ pc' = "read"
            /\ UNCHANGED exitReason
    /\ UNCHANGED <<config, DNS_RECORD_ID, dns_record, discoveryResp, readResp,
                   updateResp, updated, interruptedAt, hist, stalled>>

EchoResponse ==
    /\ \E resp \in EchoResponses : EchoReceive(resp)
    /\ UNCHANGED env

\* get_cloudflare_dns_record receives the response resp; check_and_update
\* compares and, when the addresses differ, calls
\* update_cloudflare_dns_record, which sends the PUT.
ReadReceive(resp) ==
    LET rec == get_cloudflare_dns_record(resp)
        cf_ip == ExtractContent(rec)
    IN  /\ pc = "read"
        /\ ~stalled
        /\ readResp' = resp
        /\ dns_record' = rec
        /\ IF RecordFalsy(rec)
           THEN pc' = "sleep" /\ UNCHANGED <<calls, issued, exitReason>>
           ELSE IF cf_ip.raised
                THEN RaiseInPass("Exception") /\ UNCHANGED <<calls, issued>>
                ELSE IF IpChanged(current_ip, cf_ip.value)
                     THEN /\ calls' = Append(calls, Call("update", UpdateData(current_ip)))
                          /\ issued' = issued \cup {"update"}
                          /\ pc' = "update"
                          /\ UNCHANGED exitReason
                     ELSE pc' = "sleep" /\ UNCHANGED <<calls, issued, exitReason>>
        /\ UNCHANGED <<config, DNS_RECORD_ID, current_ip, discoveryResp, echoResp,
                       updateResp, updated, interruptedAt, hist, stalled>>

ReadResponse ==
    /\ \E resp \in ReadResponses : ReadReceive(resp)
    /\ UNCHANGED env

\* update_cloudflare_dns_record sending the PUT again after a failure.
UpdateReceiveRetry(resp) ==
    /\ pc = "update"
    /\ ~stalled
    /\ updateResp' = resp
    /\ updated' = update_cloudflare_dns_record(resp)
    /\ IF update_cloudflare_dns_record(resp)
       THEN pc' = "sleep" /\ UNCHANGED calls
       ELSE pc' = "update" /\ calls' = Append(calls, Call("update", UpdateData(current_ip)))
    /\ UNCHANGED <<config, DNS_RECORD_ID, current_ip, dns_record, issued,
                   discoveryResp, echoResp, readResp, exitReason, interruptedAt,
                   hist, stalled>>

\* update_cloudflare_dns_record receives the response resp and returns True
\* or False; check_and_update logs the outcome and returns.
UpdateReceive(resp) ==
    /\ pc = "update"
    /\ ~stalled
    /\ updateResp' = resp
    /\ updated' = update_cloudflare_dns_record(resp)
    /\ pc' = "sleep"
    /\ UNCHANGED <<config, DNS_RECORD_ID, current_ip, dns_record, calls, issued,
                   discoveryResp, echoResp, readResp, exitReason, interruptedAt,
                   hist, stalled>>

UpdateResponse ==
    /\ \E resp \in UpdateResponses : UpdateReceive(resp)
    /\ UNCHANGED env

\* A loop whose wait is skipped.
SleepWithoutWait ==
    /\ pc = "sleep"
    /\ pc' = "loop"
    /\ UNCHANGED <<config, DNS_RECORD_ID, passLocals, issued, discoveryResp,
                   exitReason, interruptedAt, hist, stalled, env>>

\* time.sleep(CHECK_INTERVAL) returns, or raises ValueError for a negative
\* interval, which the "except Exception" of main catches.
Sleep ==
    /\ pc = "sleep"
    /\ IF CHECK_INTERVAL < 0
       THEN Return(MainExit("Exception")) /\ UNCHANGED waits
       ELSE pc' = "loop" /\ waits' = waits + 1 /\ UNCHANGED exitReason
    /\ UNCHANGED <<config, DNS_RECORD_ID, passLocals, issued, discoveryResp,
                   interruptedAt, prevIp, stalled, env>>

\* The request in flight never gets a response and never fails: without a
\* timeout the call blocks for good.
Stall ==
    /\ pc \in RequestPcs
    /\ ~stalled
    /\ RequestTimeout = None
    /\ stalled' = TRUE
    /\ UNCHANGED <<config, DNS_RECORD_ID, pc, passLocals, issued, discoveryResp,
                   exitReason, interruptedAt, hist, env>>

\* KeyboardInterrupt is raised in the main thread, wherever it is.  Before
\* the try of main nothing catches it; inside a pass it passes the handler
\* of check_and_update unless that handler catches it.
Interrupt ==
    /\ pc # "done"
    /\ interruptedAt' = pc
    /\ IF pc \in StartupPcs
       THEN Return("uncaught_interrupt")
       ELSE IF pc \in PassPcs
            THEN RaiseInPass("KeyboardInterrupt")
            ELSE Return(MainExit("KeyboardInterrupt"))
    /\ stalled' = FALSE
    /\ UNCHANGED <<config, DNS_RECORD_ID, passLocals, issued, discoveryResp,
                   hist, env>>

Next ==
    \/ CheckEnv
    \/ ResolveRecordId
    \/ DiscoveryResponse
    \/ StartPass
    \/ EchoResponse
    \/ ReadResponse
    \/ UpdateResponse
    \/ Sleep
    \/ Stall
    \/ Interrupt

Spec == Init /\ [][Next]_vars

\* The scheduling of the single thread: a step of the program that can be
\* taken is taken, and a response that can arrive arrives.  Nothing obliges
\* an interrupt to come, and nothing prevents a request from stalling.
Fairness ==
    /\ WF_vars(CheckEnv)
    /\ WF_vars(ResolveRecordId)
    /\ WF_vars(DiscoveryResponse)
    /\ WF_vars(StartPass)
    /\ WF_vars(EchoResponse)
    /\ WF_vars(ReadResponse)
    /\ WF_vars(UpdateResponse)
    /\ WF_vars(Sleep)

FairSpec == Spec /\ Fairness

----------------------------------------------------------------------------
(* The process with its surroundings: the host has a public address, the   *)
(* provider holds the record.  Until the surroundings settle the address    *)
(* changes, others modify the record and calls fail; a call that succeeds   *)
(* tells the truth, and a PUT that succeeds replaces the record by its      *)
(* body.  Once settled, nothing changes but by the process and every call   *)
(* succeeds.                                                                *)

InitConverge ==
    /\ CF_API_TOKEN = "token"
    /\ ZONE_ID = "zone"
    /\ DNS_RECORD_ID \in {None, "abc123"}
    /\ DOMAIN_NAME \in {None, "x.example.com"}
    /\ RECORD_TYPE = "A"
    /\ TTL \in TTLs
    /\ PROXIED \in BOOLEAN
    /\ CHECK_INTERVAL \in {-1, 300}
    /\ InitProcess
    /\ publicIp \in IPs
    /\ remote \in RemoteRecords
    /\ stable = FALSE

\* The echo service answers with the public address.
EchoTruth == [status |-> "200", text |-> publicIp]

\* The provider answers the read with the record it holds.
ReadTruth == [status |-> "200", body |-> [shape |-> "record", result |-> remote]]

\* The provider accepts the PUT.
UpdateAccepted == [status |-> "200", shape |-> "dict", success |-> TRUE]

\* The provider lists the managed record.
DiscoveryTruth ==
    [status |-> "200",
     body |-> [shape |-> "dict", success |-> TRUE, result |-> <<"def456">>]]

Failures(responses) == {r \in responses : r.status # "200"}

ConvergeDiscovery ==
    /\ \E resp \in {DiscoveryTruth}
                    \cup (IF stable THEN {} ELSE Failures(DiscoveryResponses)) :
            DiscoveryReceive(resp)
    /\ UNCHANGED env

ConvergeEcho ==
    /\ \E resp \in {EchoTruth} \cup (IF stable THEN {} ELSE Failures(EchoResponses)) :
            EchoReceive(resp)
    /\ UNCHANGED env

ConvergeRead ==
    /\ \E resp \in {ReadTruth} \cup (IF stable THEN {} ELSE Failures(ReadResponses)) :
            ReadReceive(resp)
    /\ UNCHANGED env

ConvergeUpdate ==
    /\ \E resp \in {UpdateAccepted}
                    \cup (IF stable THEN {} ELSE Failures(UpdateResponses)) :
            /\ UpdateReceive(resp)
            /\ remote' = IF resp = UpdateAccepted
                         THEN calls[Len(calls)].data
                         ELSE remote
    /\ UNCHANGED <<publicIp, stable>>

\* The host gets another public address.
PublicIpChanges ==
    /\ ~stable
    /\ publicIp' \in IPs \ {publicIp}
    /\ UNCHANGED <<config, DNS_RECORD_ID, pc, passLocals, issued, discoveryResp,
                   exitReason, interruptedAt, hist, stalled, remote, stable>>

\* Somebody else changes the content of the record.
RecordModified ==
    /\ ~stable
    /\ \E c \in IPs \ {remote.content} :
            remote' = [remote EXCEPT !.content = c]
    /\ UNCHANGED <<config, DNS_RECORD_ID, pc, passLocals, issued, discoveryResp,
                   exitReason, interruptedAt, hist, stalled, publicIp, stable>>

\* From here on the address does not change, nobody else modifies the
\* record and the calls succeed.
Settle ==
    /\ ~stable
    /\ stable' = TRUE
    /\ UNCHANGED <<config, DNS_RECORD_ID, pc, passLocals, issued, discoveryResp,
                   exitReason, interruptedAt, hist, stalled, publicIp, remote>>

ConvergeNext ==
    \/ CheckEnv
    \/ ResolveRecordId
    \/ ConvergeDiscovery
    \/ StartPass
    \/ ConvergeEcho
    \/ ConvergeRead
    \/ ConvergeUpdate
    \/ Sleep
    \/ PublicIpChanges
    \/ RecordModified
    \/ Settle

ConvergeFairness ==
    /\ WF_vars(CheckEnv)
    /\ WF_vars(ResolveRecordId)
    /\ WF_vars(ConvergeDiscovery)
    /\ WF_vars(StartPass)
    /\ WF_vars(ConvergeEcho)
    /\ WF_vars(ConvergeRead)
    /\ WF_vars(ConvergeUpdate)
    /\ WF_vars(Sleep)

ConvergeSpec == InitConverge /\ [][ConvergeNext]_vars /\ ConvergeFairness

----------------------------------------------------------------------------
(* Properties *)

HasCall(op) == \E i \in 1..Len(calls) : calls[i].op = op

CountCalls(op) == Cardinality({i \in 1..Len(calls) : calls[i].op = op})

\* The echo call of this pass returned an address.
EchoOk == echoResp.status = "200"

\* The read call of this pass returned a record with a content field.
ReadRecord == readResp.status = "200" /\ readResp.body.shape = "record"

\* The read call of this pass failed: transport error, non-200 status, or a
\* body that is not JSON.
ReadFailed ==
    \/ readResp.status \in {"exc", "non200"}
    \/ readResp.status = "200" /\ readResp.body.shape = "malformed"

\* C1: in a pass where the echoed IP equals the content of the record read,
\* no update call is issued.
C1_NoUpdateWhenUnchanged ==
    (EchoOk /\ ReadRecord /\ readResp.body.result.content = echoResp.text)
        => ~HasCall("update")

C1_Witness ==
    /\ pc = "sleep"
    /\ EchoOk /\ ReadRecord
    /\ readResp.body.result.content = echoResp.text

\* C2: in a pass where echo and read succeed and the echoed IP differs from
\* the record's content, exactly one update call is issued, with content =
\* the IP echoed in this pass and type, name, ttl, proxied of the
\* configuration.
C2_OneUpdateWhenChanged ==
    (EchoOk /\ ReadRecord /\ readResp.body.result.content # echoResp.text)
        => /\ CountCalls("update") = 1
           /\ \A i \in 1..Len(calls) :
                calls[i].op = "update" =>
                    /\ calls[i].data.content = echoResp.text
                    /\ calls[i].data.type = RECORD_TYPE
                    /\ calls[i].data.name = DOMAIN_NAME
                    /\ calls[i].data.ttl = TTL
                    /\ calls[i].data.proxied = PROXIED

C2_Witness ==
    /\ pc = "sleep"
    /\ EchoOk /\ ReadRecord
    /\ readResp.body.result.content # echoResp.text
    /\ readResp.body.result.ttl # TTL
    /\ updateResp # NoResp

\* C3: when the echo call fails (transport error or non-200 status), neither
\* a read call nor an update call is issued in that pass.
C3_EchoFailureStopsPass ==
    echoResp.status \in {"exc", "non200"}
        => ~HasCall("read") /\ ~HasCall("update")

C3_Witness ==
    /\ pc = "sleep"
    /\ echoResp.status = "non200"
    /\ calls = <<[op |-> "echo", target |-> DNS_RECORD_ID, data |-> NullRecord]>>

C5_FailuresNeverEndLoop ==
    /\ [][(pc \in PassPcs /\ pc' \notin PassPcs /\ interruptedAt' = interruptedAt)
            => (pc' = "sleep" /\ exitReason' = "running")]_vars
    /\ [][(pc \in {"loop", "sleep"} /\ pc' # pc /\ interruptedAt' = interruptedAt)
            => \/ pc = "loop" /\ pc' = "echo"
               \/ pc = "sleep" /\ pc' = "loop" /\ CHECK_INTERVAL >= 0
               \/ pc = "sleep" /\ pc' = "done" /\ CHECK_INTERVAL < 0]_vars

C5_Witness ==
    /\ pc = "loop"
    /\ exitReason = "running"
    /\ updateResp.status = "exc"

\* C6 as stated: a pass in progress is never abandoned, an interrupt takes
\* effect only once the pass has completed.
C6_InterruptWaitsForPass ==
    [][(pc \in PassPcs) => (pc' \in PassPcs \cup {"sleep"})]_vars

\* C6 amended: an interrupt that arrives once the loop has been entered
\* stops the loop at once, also part-way through a pass, whose remaining
\* calls are then not issued; the process logs the interruption and exits.
C6_InterruptStopsLoopAtOnce ==
    [][(interruptedAt' # interruptedAt /\ pc \in LoopPcs)
        => /\ pc' = "done"
           /\ exitReason' = "interrupted"
           /\ calls' = calls
           /\ issued' = issued]_vars

C6_Witness ==
    /\ pc = "done"
    /\ exitReason = "interrupted"
    /\ interruptedAt = "read"
    /\ ~HasCall("update")

\* C7: when the record identifier and the domain name are both absent,
\* startup aborts: the loop is never entered and no call is ever issued.
C7_NoIdNoDomainAborts ==
    (Falsy(DNS_RECORD_ID) /\ Falsy(DOMAIN_NAME))
        => pc \in {"check_env", "record_id", "done"} /\ issued = {}

C7_Witness ==
    /\ pc = "done"
    /\ exitReason = "no_record_id_no_domain"

\* The discovery response yields no identifier: transport error, non-200
\* status, a body that is not a JSON object, success flag false, no match,
\* or a first match without a usable id.
NoIdentifier(resp) ==
    \/ resp.status # "200"
    \/ resp.body.shape # "dict"
    \/ ~resp.body.success
    \/ resp.body.result = <<>>
    \/ Head(resp.body.result) \in {None, "", Missing}

\* C8: when discovery yields no identifier the process exits before the
\* loop: no echo, read or update call is ever issued.
C8_FailedDiscoveryAborts ==
    (discoveryResp # NoResp /\ NoIdentifier(discoveryResp))
        => pc = "done" /\ issued = {"discovery"}

C8_Witness ==
    /\ pc = "done"
    /\ exitReason = "discovery_failed"
    /\ discoveryResp.status = "200"
    /\ discoveryResp.body.shape = "dict"
    /\ ~discoveryResp.body.success
    /\ discoveryResp.body.result # <<>>
    /\ Head(discoveryResp.body.result) \in RecordIds

\* C9: when discovery returns a matching record the loop is entered and
\* every read and update call targets the identifier of the first record
\* of the response.
C9_FirstMatchIsTarget ==
    (discoveryResp # NoResp /\ ~NoIdentifier(discoveryResp))
        => /\ pc \notin StartupPcs
           /\ exitReason \in {"running", "interrupted", "unexpected"}
           /\ \A i \in 1..Len(calls) :
                calls[i].op \in {"read", "update"}
                    => calls[i].target = Head(discoveryResp.body.result)

C9_Witness ==
    /\ discoveryResp # NoResp
    /\ ~NoIdentifier(discoveryResp)
    /\ Len(discoveryResp.body.result) = 2
    /\ discoveryResp.body.result[1] # discoveryResp.body.result[2]
    /\ discoveryResp.body.result[2] \in RecordIds
    /\ pc = "sleep"
    /\ HasCall("read") /\ HasCall("update")

\* C10: with a configured record identifier and no domain name, a pass in
\* which the echoed IP differs from the record's content issues an update
\* that carries the echoed IP as content and the type, name, ttl and proxied
\* of the record it read.
C10_UpdateKeepsOtherFields ==
    (discoveryResp = NoResp /\ ~Falsy(DNS_RECORD_ID) /\ Falsy(DOMAIN_NAME)
     /\ EchoOk /\ ReadRecord /\ readResp.body.result.content # echoResp.text)
        => \E i \in 1..Len(calls) :
            /\ calls[i].op = "update"
            /\ calls[i].data.content = echoResp.text
            /\ calls[i].data.type = readResp.body.result.type
            /\ calls[i].data.name = readResp.body.result.name
            /\ calls[i].data.ttl = readResp.body.result.ttl
            /\ calls[i].data.proxied = readResp.body.result.proxied

\* C11: when the credential or the zone identifier is missing, startup
\* aborts before the loop: no discovery, echo, read or update call is ever
\* issued.
C11_MissingSettingAborts ==
    (Falsy(CF_API_TOKEN) \/ Falsy(ZONE_ID))
        => pc \in {"check_env", "done"} /\ issued = {} /\ calls = <<>>

C11_Witness ==
    /\ pc = "done"
    /\ exitReason = "missing_vars"
    /\ ~Falsy(CF_API_TOKEN)
    /\ Falsy(ZONE_ID)

\* The responses received in the current pass.
Answered ==
    (IF echoResp # NoResp THEN 1 ELSE 0)
    + (IF readResp # NoResp THEN 1 ELSE 0)
    + (IF updateResp # NoResp THEN 1 ELSE 0)

PassOrder == <<"echo", "read", "update">>

\* C12: passes do not overlap and their calls are ordered: at most one
\* request is unanswered at any time, the calls of a pass are echo, read,
\* update in this order, each sent after the response to the one before; the
\* first pass starts without a wait and exactly one wait lies between two
\* consecutive passes.
C12_PassesSequential ==
    /\ Len(calls) <= 3
    /\ \A i \in 1..Len(calls) : calls[i].op = PassOrder[i]
    /\ Len(calls) - Answered \in {0, 1}
    /\ pc \in PassPcs => Len(calls) - Answered = 1
    /\ pc \in {"loop", "sleep"} => Len(calls) = Answered
    /\ HasCall("read") => echoResp # NoResp
    /\ HasCall("update") => readResp # NoResp
    /\ pc \in PassPcs \cup {"sleep"} => waits = 0
    /\ pc = "loop" => waits = (IF calls = <<>> THEN 0 ELSE 1)

C12_Witness ==
    /\ pc = "echo"
    /\ prevIp # None
    /\ waits = 0
    /\ Len(calls) = 1

\* C13: no call is retried within a pass: a pass issues at most one echo,
\* one read and one update call, and after a failed update the pass is over
\* with that single update call.
C13_NoRetry ==
    /\ CountCalls("echo") <= 1
    /\ CountCalls("read") <= 1
    /\ CountCalls("update") <= 1
    /\ (updateResp # NoResp /\ ~updated)
        => pc \in {"sleep", "loop", "done"} /\ CountCalls("update") = 1

C13_Witness ==
    /\ pc = "loop"
    /\ updateResp.status = "non200"
    /\ ~updated
    /\ CountCalls("update") = 1

\* C14: every pass that starts eventually ends; no pass stays stuck on a
\* call that never receives a response.
C14_PassEventuallyEnds ==
    (pc \in PassPcs) ~> (pc \notin PassPcs)

\* C15: a read response with HTTP 200 that reports failure or carries no
\* record (no result, null result, no content field) ends the pass without
\* an update call.
C15_ContentlessReadIsFailure ==
    (readResp.status = "200"
     /\ readResp.body.shape \in {"no_result", "result_null", "no_content"})
        => ~HasCall("update")

\* C16: update_cloudflare_dns_record returns True exactly when the PUT
\* returned HTTP 200 with a true success flag; every other response makes it
\* return False, and none raises out of the call: the pass ends in the sleep.
C16_UpdateSuccessIff ==
    updateResp # NoResp
        => /\ updated <=> (updateResp.status = "200" /\ updateResp.success)
           /\ pc \in {"sleep", "loop", "done"}
           /\ exitReason = "unexpected" => CHECK_INTERVAL < 0

C16_Witness ==
    /\ pc = "sleep"
    /\ updateResp.status = "200"
    /\ updateResp.shape = "dict"
    /\ ~updateResp.success
    /\ ~updated

\* C17: the configuration never changes, the record identifier does not
\* change once the loop is entered, and the discovery request is sent at
\* most once, from the startup and only when no identifier is configured.
C17_RecordIdFixed ==
    [][/\ config' = config
       /\ (pc \in LoopPcs => DNS_RECORD_ID' = DNS_RECORD_ID)
       /\ (("discovery" \in issued' /\ "discovery" \notin issued)
            => (pc = "record_id" /\ Falsy(DNS_RECORD_ID)))
       /\ ((pc' = "discovery" /\ pc # "discovery") => "discovery" \notin issued)]_vars

C17_Witness ==
    /\ pc = "sleep"
    /\ discoveryResp # NoResp
    /\ prevIp # None
    /\ HasCall("update")
    /\ DNS_RECORD_ID = "def456"

\* The calls a pass issues, as a function of the configuration and of the
\* responses received in that pass.
ExpectedCalls ==
    IF calls = <<>>
    THEN <<>>
    ELSE <<[op |-> "echo", target |-> DNS_RECORD_ID, data |-> NullRecord]>>
         \o (IF echoResp.status = "200"
             THEN <<[op |-> "read", target |-> DNS_RECORD_ID, data |-> NullRecord]>>
             ELSE <<>>)
         \o (IF /\ echoResp.status = "200"
                /\ readResp.status = "200"
                /\ \/ readResp.body.shape \in {"no_result", "no_content"}
                   \/ /\ readResp.body.shape = "record"
                      /\ readResp.body.result.content # echoResp.text
             THEN <<[op |-> "update", target |-> DNS_RECORD_ID,
                     data |-> [type |-> RECORD_TYPE, name |-> DOMAIN_NAME,
                               content |-> echoResp.text, ttl |-> TTL,
                               proxied |-> PROXIED]]>>
             ELSE <<>>)

\* C18: the calls of a pass and the content it writes are determined by the
\* configuration and the responses received in that pass alone: nothing
\* resolved or read in an earlier pass takes part.
C18_PassIsStateless ==
    calls = ExpectedCalls

C18_Witness ==
    /\ pc = "sleep"
    /\ prevIp # None
    /\ echoResp.status = "200"
    /\ echoResp.text = prevIp
    /\ ReadRecord
    /\ readResp.body.result.content # prevIp
    /\ HasCall("update")

\* The record carries the public address and no update is in flight.
Converged == remote.content = publicIp /\ pc # "update"

\* The process is in its loop, and the loop does not end at the first
\* time.sleep.
Polling == pc \in LoopPcs /\ CHECK_INTERVAL >= 0

\* C19: once the public address has stopped changing, nobody else modifies
\* the record and the calls succeed, a process that is polling reaches a
\* point from which the record's content equals the public address for good
\* and no update call is issued any more.
C19_Convergence ==
    (stable /\ Polling) ~> []Converged

C19_Witness ==
    /\ stable
    /\ CHECK_INTERVAL >= 0
    /\ pc = "loop"
    /\ updated
    /\ prevIp # None
    /\ prevIp # publicIp
    /\ remote.content = publicIp

====
